---- MODULE Spec2Model ----
(***************************************************************************)
(* Model of the root-package LRU engine of github.com/vhndaree/lru:        *)
(* the struct lru (index map + intrusive doubly linked recency list) and   *)
(* its operations Contains, Set, SetWithExpiry, Get, Del, translated       *)
(* statement by statement, and the cleaner goroutine of scheduler.go,      *)
(* one turn of its loop per step.  Entries live in a heap of nodes         *)
(* addressed by small integers; Nil is the nil pointer.  A nil             *)
(* dereference sets panicked.  Spec is the cache made by New,              *)
(* SpecWithExpiry the cache made by NewWithExpiry.                         *)
(***************************************************************************)
EXTENDS Integers, Sequences, FiniteSets, TLC

\* ---------------------------------------------------------------- bounds
MaxKey == 3
MaxVal == 1
MaxSize == 3
MaxNodes == 3
MaxTtl == 0
MaxExpirySize == 1
MaxTime == 2
MaxThreads == 2
MaxThreadSize == 1
MaxRaceKey == 2
MaxSubSize == 3
MaxSubThreadSize == 2
MaxSweepSize == 2

Keys == 1..MaxKey
Values == 1..MaxVal
Sizes == 1..MaxSize
Nodes == 1..MaxNodes
Ttls == 0..MaxTtl
ExpirySizes == 1..MaxExpirySize
AnySizes == -1..1
SweepSizes == 1..MaxSweepSize
Threads == 1..MaxThreads
ThreadSizes == 1..MaxThreadSize
RaceKeys == 1..MaxRaceKey
SubSizes == 1..MaxSubSize
SubThreadSizes == 1..MaxSubThreadSize

Nil == 0
ZeroVal == 0
ZeroTime == 0

\* ------------------------------------------------------- program state
VARIABLES
  cache,       \* lru.cache : key -> node (Nil when the key is not in the map)
  size,        \* lru.size
  withExpiry,  \* lru.withExpiry
  head,        \* lru.head
  tail,        \* lru.tail
  length,      \* lru.length
  key,         \* cache.key   of every node
  value,       \* cache.value of every node
  prev,        \* cache.prev  of every node
  next,        \* cache.next  of every node
  ttl,         \* cache.ttl   of every node
  now,         \* time.Now()
  h,           \* the cleaner's cursor h while it walks the list, Nil between walks
  mu,          \* lru.Mutex: TRUE when locked
  pc,          \* of every calling thread: "in" between Lock and the deferred Unlock
  panicked,    \* a call or the cleaner dereferenced a nil pointer
  last,        \* the last call: its name, arguments and results
  hist         \* history: the <<key, value>> pairs set and not removed since,
               \* the most recently touched (by Set or a Get hit) first

engine == <<cache, size, withExpiry, head, tail, length, key, value, prev, next, ttl>>

\* The cache as one record, the receiver l of the methods.
L ==
  [cache |-> cache, size |-> size, withExpiry |-> withExpiry,
   head |-> head, tail |-> tail, length |-> length,
   key |-> key, value |-> value, prev |-> prev, next |-> next, ttl |-> ttl,
   h |-> h, mu |-> mu, pc |-> pc,
   panicked |-> FALSE, full |-> FALSE, evicted |-> 0, rv |-> ZeroVal, rok |-> FALSE]

\* ------------------------------------------------- statements of the code
\* A statement after a panic is not executed.
Panic(s) == [s EXCEPT !.panicked = TRUE]

\* n.prev = x
WrPrev(s, n, x) ==
  IF s.panicked THEN s
  ELSE IF n = Nil THEN Panic(s)
  ELSE [s EXCEPT !.prev[n] = x]

\* n.next = x
WrNext(s, n, x) ==
  IF s.panicked THEN s
  ELSE IF n = Nil THEN Panic(s)
  ELSE [s EXCEPT !.next[n] = x]

\* l.head = x
WrHead(s, x) == IF s.panicked THEN s ELSE [s EXCEPT !.head = x]

\* l.tail = x
WrTail(s, x) == IF s.panicked THEN s ELSE [s EXCEPT !.tail = x]

\* l.Mutex.Lock() by the thread t; the deferred Unlock has not run yet.
Lock(s, t) == [s EXCEPT !.mu = TRUE, !.pc[t] = "in"]

\* return v, ok
Ret(s, v, ok) == IF s.panicked THEN s ELSE [s EXCEPT !.rv = v, !.rok = ok]

\* ------------------------------------------------------------ the heap
Roots(s) == ({s.head, s.tail, s.h} \cup {s.cache[k] : k \in Keys}) \ {Nil}

RECURSIVE Closure(_, _, _)
Closure(s, R, fuel) ==
  LET R2 == (R \cup {s.prev[n] : n \in R} \cup {s.next[n] : n \in R}) \ {Nil}
  IN IF fuel = 0 \/ R2 = R THEN R ELSE Closure(s, R2, fuel - 1)

Reachable(s) == Closure(s, Roots(s), MaxNodes)

Free(s) == Nodes \ Reachable(s)

\* &cache[K, V]{...}: a node no pointer refers to.
NewNode(s) == CHOOSE n \in Free(s) : \A m \in Free(s) : n <= m

\* The reachable nodes in the order a walk from head, tail and the map finds them.
Visit(seq, n) ==
  IF n = Nil \/ (\E i \in 1..Len(seq) : seq[i] = n) THEN seq ELSE Append(seq, n)

RECURSIVE VisitRoots(_, _, _)
VisitRoots(s, seq, k) ==
  IF k > MaxKey THEN seq ELSE VisitRoots(s, Visit(seq, s.cache[k]), k + 1)

RECURSIVE Explore(_, _, _)
Explore(s, seq, i) ==
  IF i > Len(seq) THEN seq
  ELSE Explore(s, Visit(Visit(seq, s.next[seq[i]]), s.prev[seq[i]]), i + 1)

Order(s) ==
  Explore(s, Visit(VisitRoots(s, Visit(Visit(<<>>, s.head), s.tail), 1), s.h), 1)

\* Nodes that no pointer reaches are collected; an address carries no meaning,
\* so the remaining nodes are numbered in the order of the walk.
Collect(s) ==
  LET ord == Order(s)
      name(n) == IF n = Nil THEN Nil ELSE CHOOSE i \in 1..Len(ord) : ord[i] = n
      live(i) == i <= Len(ord)
  IN [s EXCEPT
        !.cache = [k \in Keys |-> name(s.cache[k])],
        !.head  = name(s.head),
        !.tail  = name(s.tail),
        !.h     = name(s.h),
        !.key   = [i \in Nodes |-> IF live(i) THEN s.key[ord[i]] ELSE 0],
        !.value = [i \in Nodes |-> IF live(i) THEN s.value[ord[i]] ELSE ZeroVal],
        !.prev  = [i \in Nodes |-> IF live(i) THEN name(s.prev[ord[i]]) ELSE Nil],
        !.next  = [i \in Nodes |-> IF live(i) THEN name(s.next[ord[i]]) ELSE Nil],
        !.ttl   = [i \in Nodes |-> IF live(i) THEN s.ttl[ord[i]] ELSE ZeroTime]]

\* ------------------------------------------------------------ operations
lruContains(s, k) == Ret(s, ZeroVal, s.cache[k] # Nil)

\* del, lines 181-196: unlink the entry c from the list.
delUnlink(s, c) ==
  IF s.prev[c] = Nil /\ s.next[c] = Nil
  THEN WrTail(WrHead(s, Nil), Nil)
  ELSE IF s.prev[c] = Nil
  THEN LET a == WrPrev(s, s.next[c], Nil)
       IN WrHead(a, a.next[c])
  ELSE IF s.next[c] = Nil
  THEN LET a == WrNext(s, s.prev[c], Nil)
       IN WrTail(a, a.prev[c])
  ELSE LET a == WrPrev(s, s.next[c], s.prev[c])
       IN WrNext(a, a.prev[c], a.next[c])

\* A del that unlinks the entry and lowers length but leaves the key in the map.
delKeepsMapEntry(s, k) ==
  IF ~lruContains(s, k).rok THEN Ret(s, ZeroVal, FALSE)
  ELSE
    LET s1 == delUnlink(s, s.cache[k])
        s2 == IF s1.panicked THEN s1 ELSE [s1 EXCEPT !.length = s1.length - 1]
    IN Ret(s2, ZeroVal, TRUE)

del(s, k) ==
  IF ~lruContains(s, k).rok THEN Ret(s, ZeroVal, FALSE)
  ELSE
    LET s1 == delUnlink(s, s.cache[k])
        s2 == IF s1.panicked THEN s1
              ELSE [s1 EXCEPT !.cache[k] = Nil, !.length = s1.length - 1]
    IN Ret(s2, ZeroVal, TRUE)

\* set, lines 78-89: an entry c that is not the head is unlinked.
setUnlink(s, c) ==
  IF c # s.head
  THEN IF s.prev[c] = Nil
       THEN LET a == WrPrev(s, s.next[c], Nil)
            IN WrHead(a, a.next[c])
       ELSE IF s.next[c] = Nil
       THEN LET a == WrNext(s, s.prev[c], Nil)
            IN WrTail(a, a.prev[c])
       ELSE LET a == WrPrev(s, s.next[c], s.prev[c])
            IN WrNext(a, a.prev[c], a.next[c])
  ELSE s

\* set, lines 91-98: the entry c gets the value and becomes the head.
setRelink(s, k, c, v, expiry) ==
  LET s2 == WrPrev(s, c, Nil)
      s3 == WrNext(s2, c, s2.head)
      s4 == IF s3.panicked THEN s3
            ELSE [s3 EXCEPT !.value[c] = v, !.ttl[c] = expiry]
      s5 == WrHead(s4, c)
  IN IF s5.panicked THEN s5 ELSE [s5 EXCEPT !.cache[k] = c]

\* set, lines 103-105: a full cache drops the entry at the tail.
setEvict(s) ==
  IF s.length >= s.size
  THEN IF s.tail = Nil THEN Panic(s)
       ELSE LET d == del(s, s.key[s.tail])
            IN IF d.rok /\ ~d.panicked
               THEN [d EXCEPT !.evicted = s.key[s.tail]] ELSE d
  ELSE s

\* set, lines 107-117: a new entry is linked in at the head.
setInsert(s, k, v, expiry) ==
  IF s.panicked THEN s
  ELSE IF Free(s) = {} THEN [s EXCEPT !.full = TRUE]
  ELSE
    LET c == NewNode(s)
        s2 == [s EXCEPT !.key[c] = k, !.value[c] = v, !.ttl[c] = expiry,
                        !.next[c] = s.head, !.prev[c] = Nil]
        s3 == IF s.head = Nil THEN WrTail(s2, c) ELSE WrPrev(s2, s.head, c)
        s4 == WrHead(s3, c)
    IN [s4 EXCEPT !.cache[k] = c, !.length = s.length + 1]

set(s, k, v, expiry) ==
  IF s.cache[k] # Nil
  THEN setRelink(setUnlink(s, s.cache[k]), k, s.cache[k], v, expiry)
  ELSE setInsert(setEvict(s), k, v, expiry)

lruSet(s, k, v) == Ret(set(s, k, v, ZeroTime), ZeroVal, FALSE)

\* SetWithExpiry(key, value, ttl) at time t
lruSetWithExpiry(s, k, v, d, t) == Ret(set(s, k, v, t + d), ZeroVal, FALSE)

\* Get, lines 131-155: the entry c was found.
lruGetHit(s, c) ==
  IF s.prev[c] = Nil THEN Ret(s, s.value[c], TRUE)
  ELSE IF s.next[c] = Nil THEN
    LET s1 == WrNext(s, s.prev[c], Nil)
        s2 == WrTail(s1, s1.prev[c])
        s3 == WrPrev(s2, c, Nil)
        s4 == WrNext(s3, c, s3.head)
        s5 == WrPrev(s4, s4.head, c)
        s6 == WrHead(s5, c)
    IN Ret(s6, s6.value[c], TRUE)
  ELSE
    LET s1 == WrNext(s, s.prev[c], s.next[c])
        s2 == WrPrev(s1, s1.next[c], s1.prev[c])
        s3 == WrNext(s2, c, s2.head)
        s4 == WrPrev(s3, c, Nil)
        s5 == WrHead(s4, c)
    IN Ret(s5, s5.value[c], TRUE)

\* A Get that does not test the map's ok result and reads c.prev of a nil c.
lruGetNoOkTest(s, k) ==
  LET c == s.cache[k] IN
  IF c # Nil THEN lruGetHit(s, c) ELSE Panic(s)

lruGet(s, k) ==
  LET c == s.cache[k] IN
  IF c # Nil THEN lruGetHit(s, c) ELSE Ret(s, ZeroVal, FALSE)

lruDel(s, k) == del(s, k)

\* startCleaner, lines 25-31: one turn of the loop at time t, the cursor on a node.
cleanerStep(s, t) ==
  LET d == IF s.ttl[s.h] < t THEN del(s, s.key[s.h]) ELSE s
  IN IF d.panicked THEN d ELSE [d EXCEPT !.h = d.next[s.h]]

\* ------------------------------------- the engine of the lru sub-package
\* del, lines 140-149: the entry c is unlinked.
subDelUnlink(s, c) ==
  IF s.prev[c] = Nil
  THEN LET a == WrPrev(s, s.next[c], Nil)
       IN WrHead(a, a.next[c])
  ELSE IF s.next[c] = Nil
  THEN LET a == WrNext(s, s.prev[c], Nil)
       IN WrTail(a, a.prev[c])
  ELSE LET a == WrPrev(s, s.next[c], s.prev[c])
       IN WrNext(a, a.prev[c], a.next[c])

subDel(s, k) ==
  IF s.cache[k] = Nil THEN Ret(s, ZeroVal, FALSE)
  ELSE
    LET s1 == subDelUnlink(s, s.cache[k])
        s2 == IF s1.panicked THEN s1
              ELSE [s1 EXCEPT !.cache[k] = Nil, !.length = s1.length - 1]
    IN Ret(s2, ZeroVal, TRUE)

\* Set, lines 48-57: the entry c of a key already in the map is unlinked.
subSetUnlink(s, c) ==
  IF s.prev[c] = Nil
  THEN LET a == WrPrev(s, s.next[c], Nil)
       IN WrHead(a, a.next[c])
  ELSE IF s.next[c] = Nil
  THEN LET a == WrNext(s, s.prev[c], Nil)
       IN WrTail(a, a.prev[c])
  ELSE LET a == WrPrev(s, s.next[c], s.prev[c])
       IN WrNext(a, a.prev[c], a.next[c])

\* Set, lines 59-64: the entry c gets the value and becomes the head.
subSetRelink(s, k, c, v) ==
  LET s2 == WrPrev(s, c, Nil)
      s3 == WrNext(s2, c, s2.head)
      s4 == IF s3.panicked THEN s3 ELSE [s3 EXCEPT !.value[c] = v]
      s5 == WrHead(s4, c)
  IN IF s5.panicked THEN s5 ELSE [s5 EXCEPT !.cache[k] = c]

\* Set, lines 70-72: a full cache drops the entry at the tail.
subSetEvict(s) ==
  IF s.length >= s.size
  THEN IF s.tail = Nil THEN Panic(s)
       ELSE LET d == subDel(s, s.key[s.tail])
            IN IF d.rok /\ ~d.panicked
               THEN [d EXCEPT !.evicted = s.key[s.tail]] ELSE d
  ELSE s

\* Set, lines 74-86: a new entry is linked in at the head.
subSetInsert(s, k, v) ==
  IF s.panicked THEN s
  ELSE IF Free(s) = {} THEN [s EXCEPT !.full = TRUE]
  ELSE
    LET c == NewNode(s)
        s2 == [s EXCEPT !.key[c] = k, !.value[c] = v,
                        !.next[c] = s.head, !.prev[c] = Nil]
        s3 == IF s.head = Nil THEN WrTail(WrHead(s2, c), c)
              ELSE WrHead(WrPrev(s2, s.head, c), c)
    IN [s3 EXCEPT !.cache[k] = c, !.length = s.length + 1]

subSet(s, k, v) ==
  IF s.cache[k] # Nil
  THEN Ret(subSetRelink(subSetUnlink(s, s.cache[k]), k, s.cache[k], v), ZeroVal, FALSE)
  ELSE Ret(subSetInsert(subSetEvict(s), k, v), ZeroVal, FALSE)

\* Get, lines 97-120: the entry c was found.
subGetHit(s, c) ==
  IF s.prev[c] = Nil THEN Ret(s, s.value[c], TRUE)
  ELSE IF s.next[c] = Nil THEN
    LET s1 == WrNext(s, s.prev[c], Nil)
        s2 == WrTail(s1, s1.prev[c])
        s3 == WrPrev(s2, c, Nil)
        s4 == WrNext(s3, c, s3.head)
        s5 == WrPrev(s4, s4.head, c)
        s6 == WrHead(s5, c)
    IN Ret(s6, s6.value[c], TRUE)
  ELSE
    LET s1 == WrNext(s, s.prev[c], s.next[c])
        s2 == WrPrev(s1, s1.next[c], s1.prev[c])
        s3 == WrNext(s2, c, s2.head)
        s4 == WrPrev(s3, c, Nil)
        s5 == WrHead(s4, c)
    IN Ret(s5, s5.value[c], TRUE)

subGet(s, k) ==
  LET c == s.cache[k] IN
  IF c # Nil THEN subGetHit(s, c) ELSE Ret(s, ZeroVal, FALSE)

\* l.RWMutex.RLock() by the thread t; the deferred RUnlock has not run yet.
RLock(s, t) == [s EXCEPT !.pc[t] = "in"]

\* ---------------------------------------------------------------- history
HistKeys(q) == {q[i][1] : i \in 1..Len(q)}

HistDrop(q, k) == SelectSeq(q, LAMBDA e : e[1] # k)

HistVal(q, k) == LET i == CHOOSE j \in 1..Len(q) : q[j][1] = k IN q[i][2]

\* The history after a call that returned r (nothing is recorded of a call that panicked).
HistAfter(q, name, k, v, r) ==
  IF r.panicked THEN q
  ELSE IF name = "Set"
  THEN <<<<k, v>>>> \o HistDrop(IF r.evicted = 0 THEN q ELSE HistDrop(q, r.evicted), k)
  ELSE IF name = "Get" /\ r.rok /\ k \in HistKeys(q)
  THEN <<<<k, HistVal(q, k)>>>> \o HistDrop(q, k)
  ELSE IF (name = "Del" \/ name = "Clean") /\ r.rok
  THEN HistDrop(q, k)
  ELSE q

\* ---------------------------------------------------------------- actions
Commit(r) ==
  /\ cache' = r.cache
  /\ head' = r.head
  /\ tail' = r.tail
  /\ length' = r.length
  /\ key' = r.key
  /\ value' = r.value
  /\ prev' = r.prev
  /\ next' = r.next
  /\ ttl' = r.ttl
  /\ h' = r.h
  /\ mu' = r.mu
  /\ pc' = r.pc
  /\ panicked' = r.panicked
  /\ UNCHANGED <<size, withExpiry, now>>

Call(name, k, v, r) ==
  /\ last' = [op |-> name, k |-> k, v |-> v, rv |-> r.rv, ok |-> r.rok]
  /\ hist' = HistAfter(hist, name, k, v, r)

\* What happened last, when it was not a call of a method.
Event(name) == [op |-> name, k |-> 0, v |-> ZeroVal, rv |-> ZeroVal, ok |-> FALSE]

\* The struct literal of New and NewWithExpiry.
Fresh(n, e) ==
  /\ cache = [k \in Keys |-> Nil]
  /\ size = n
  /\ withExpiry = e
  /\ head = Nil
  /\ tail = Nil
  /\ length = 0
  /\ key = [m \in Nodes |-> 0]
  /\ value = [m \in Nodes |-> ZeroVal]
  /\ prev = [m \in Nodes |-> Nil]
  /\ next = [m \in Nodes |-> Nil]
  /\ ttl = [m \in Nodes |-> ZeroTime]
  /\ now = 1
  /\ h = Nil
  /\ mu = FALSE
  /\ pc = [t \in Threads |-> "out"]
  /\ panicked = FALSE
  /\ last = Event("New")
  /\ hist = <<>>

\* New[K, V](size)
New(n) == Fresh(n, FALSE)

\* NewWithExpiry[K, V](size)
NewWithExpiry(n) == Fresh(n, TRUE)

Init == \E n \in Sizes : New(n)

InitWithExpiry == \E n \in ExpirySizes : NewWithExpiry(n)

\* New takes any int.
InitAnySize == \E n \in AnySizes : New(n)

Contains(k) ==
  /\ ~panicked
  /\ LET r == Collect(lruContains(L, k)) IN Commit(r) /\ Call("Contains", k, ZeroVal, r)

\* Set is a method of the LRU interface, which New returns.
Set(k, v) ==
  /\ ~panicked
  /\ ~withExpiry
  /\ LET r == Collect(lruSet(L, k, v))
     IN ~r.full /\ Commit(r) /\ Call("Set", k, v, r)

\* SetWithExpiry is a method of the LRUWithExpiry interface, which NewWithExpiry returns.
SetWithExpiry(k, v, d) ==
  /\ ~panicked
  /\ withExpiry
  /\ LET r == Collect(lruSetWithExpiry(L, k, v, d, now))
     IN ~r.full /\ Commit(r) /\ Call("Set", k, v, r)

Get(k) ==
  /\ ~panicked
  /\ LET r == Collect(lruGet(L, k)) IN Commit(r) /\ Call("Get", k, ZeroVal, r)

Del(k) ==
  /\ ~panicked
  /\ LET r == Collect(lruDel(L, k)) IN Commit(r) /\ Call("Del", k, ZeroVal, r)

\* Time passes.
Tick ==
  /\ ~panicked
  /\ now < MaxTime
  /\ now' = now + 1
  /\ last' = Event("Tick")
  /\ UNCHANGED <<engine, h, mu, pc, panicked, hist>>

\* case <-ticker.C: h := l.head
CleanerStart ==
  /\ ~panicked
  /\ withExpiry
  /\ h = Nil
  /\ head # Nil
  /\ h' = head
  /\ last' = Event("Clean")
  /\ UNCHANGED <<engine, now, mu, pc, panicked, hist>>

\* One turn of for h != nil { ... }; the walk is over when h is nil.
CleanerStep ==
  /\ ~panicked
  /\ h # Nil
  /\ LET r == Collect(cleanerStep(L, now))
     IN /\ Commit(r)
        /\ hist' = HistAfter(hist, "Clean", key[h], ZeroVal, r)
        /\ last' = Event("Clean")

vars == <<engine, now, h, mu, pc, panicked, last, hist>>

Next ==
  \/ \E k \in Keys : Contains(k)
  \/ \E k \in Keys, v \in Values : Set(k, v)
  \/ \E k \in Keys : Get(k)
  \/ \E k \in Keys : Del(k)

Spec == Init /\ [][Next]_vars

NextWithExpiry ==
  \/ \E k \in Keys : Contains(k)
  \/ \E k \in Keys, v \in Values, d \in Ttls : SetWithExpiry(k, v, d)
  \/ \E k \in Keys : Get(k)
  \/ \E k \in Keys : Del(k)
  \/ Tick
  \/ CleanerStart
  \/ CleanerStep

SpecWithExpiry == InitWithExpiry /\ [][NextWithExpiry]_vars

SpecAnySize == InitAnySize /\ [][Next]_vars

\* Calls by threads, one step from Lock to the return and one for the deferred
\* Unlock.  Contains and the cleaner take no lock.  SpecThreads is the cache
\* within one reading of the clock.
ThreadSet(t, k, v) ==
  /\ ~panicked
  /\ ~withExpiry
  /\ ~mu
  /\ LET r == Lock(Collect(lruSet(L, k, v)), t)
     IN ~r.full /\ Commit(r) /\ Call("Set", k, v, r)

ThreadSetWithExpiry(t, k, v, d) ==
  /\ ~panicked
  /\ withExpiry
  /\ ~mu
  /\ LET r == Lock(Collect(lruSetWithExpiry(L, k, v, d, now)), t)
     IN ~r.full /\ Commit(r) /\ Call("Set", k, v, r)

ThreadGet(t, k) ==
  /\ ~panicked
  /\ ~mu
  /\ LET r == Lock(Collect(lruGet(L, k)), t) IN Commit(r) /\ Call("Get", k, ZeroVal, r)

ThreadDel(t, k) ==
  /\ ~panicked
  /\ ~mu
  /\ LET r == Lock(Collect(lruDel(L, k)), t) IN Commit(r) /\ Call("Del", k, ZeroVal, r)

\* defer l.Unlock()
Unlock(t) ==
  /\ ~panicked
  /\ pc[t] = "in"
  /\ mu' = FALSE
  /\ pc' = [pc EXCEPT ![t] = "out"]
  /\ UNCHANGED <<engine, now, h, panicked, last, hist>>

InitThreads == \E n \in ThreadSizes, e \in BOOLEAN : Fresh(n, e)

NextThreads ==
  \/ \E t \in Threads, k \in Keys, v \in Values : ThreadSet(t, k, v)
  \/ \E t \in Threads, k \in Keys, v \in Values, d \in Ttls :
       ThreadSetWithExpiry(t, k, v, d)
  \/ \E t \in Threads, k \in Keys : ThreadGet(t, k)
  \/ \E t \in Threads, k \in Keys : ThreadDel(t, k)
  \/ \E t \in Threads : Unlock(t)
  \/ \E k \in Keys : Contains(k)
  \/ CleanerStart
  \/ CleanerStep

SpecThreads == InitThreads /\ [][NextThreads]_vars

\* The cache made by NewWithExpiry under calls of SetWithExpiry, Get and Del
\* when no caller runs during a walk of the cleaner and the walk takes no time.
NextSweepAlone ==
  \/ \E k \in Keys, v \in Values, d \in Ttls : h = Nil /\ SetWithExpiry(k, v, d)
  \/ \E k \in Keys : h = Nil /\ Get(k)
  \/ \E k \in Keys : h = Nil /\ Del(k)
  \/ h = Nil /\ Tick
  \/ CleanerStart
  \/ CleanerStep

\* The cache of the lru sub-package (lru/lru.go behind the wrapper's New).
SubSet(k, v) ==
  /\ ~panicked
  /\ LET r == Collect(subSet(L, k, v))
     IN ~r.full /\ Commit(r) /\ Call("Set", k, v, r)

SubGet(k) ==
  /\ ~panicked
  /\ LET r == Collect(subGet(L, k)) IN Commit(r) /\ Call("Get", k, ZeroVal, r)

SubDel(k) ==
  /\ ~panicked
  /\ LET r == Collect(subDel(L, k)) IN Commit(r) /\ Call("Del", k, ZeroVal, r)

InitSub == \E n \in SubSizes : New(n)

NextSub ==
  \/ \E k \in Keys, v \in Values : SubSet(k, v)
  \/ \E k \in Keys : SubGet(k)
  \/ \E k \in Keys : SubDel(k)

SpecSub == InitSub /\ [][NextSub]_vars

\* Calls of the sub-package by threads: one step from RLock to the return, one
\* for the deferred RUnlock.  No call takes the write lock, so RLock never waits.
SubThreadSet(t, k, v) ==
  /\ ~panicked
  /\ pc[t] = "out"
  /\ ~mu
  /\ LET r == RLock(Collect(subSet(L, k, v)), t)
     IN ~r.full /\ Commit(r) /\ Call("Set", k, v, r)

SubThreadGet(t, k) ==
  /\ ~panicked
  /\ pc[t] = "out"
  /\ ~mu
  /\ LET r == RLock(Collect(subGet(L, k)), t) IN Commit(r) /\ Call("Get", k, ZeroVal, r)

SubThreadDel(t, k) ==
  /\ ~panicked
  /\ pc[t] = "out"
  /\ ~mu
  /\ LET r == RLock(Collect(subDel(L, k)), t) IN Commit(r) /\ Call("Del", k, ZeroVal, r)

\* defer l.RUnlock()
RUnlock(t) ==
  /\ ~panicked
  /\ pc[t] = "in"
  /\ pc' = [pc EXCEPT ![t] = "out"]
  /\ UNCHANGED <<engine, now, h, mu, panicked, last, hist>>

InitSubThreads == \E n \in SubThreadSizes : New(n)

NextSubThreads ==
  \/ \E t \in Threads, k \in Keys, v \in Values : SubThreadSet(t, k, v)
  \/ \E t \in Threads, k \in Keys : SubThreadGet(t, k)
  \/ \E t \in Threads, k \in Keys : SubThreadDel(t, k)
  \/ \E t \in Threads : RUnlock(t)

SpecSubThreads == InitSubThreads /\ [][NextSubThreads]_vars

\* The cache made by NewWithExpiry, of room for every key the callers use, with
\* calls of SetWithExpiry, Get and Del between the turns of the cleaner's walk.
NextSweepRace ==
  \/ \E k \in RaceKeys, v \in Values, d \in Ttls : SetWithExpiry(k, v, d)
  \/ \E k \in RaceKeys : Get(k)
  \/ \E k \in RaceKeys : Del(k)
  \/ Tick
  \/ CleanerStart
  \/ CleanerStep

InitSweepRace == NewWithExpiry(MaxRaceKey)

SpecSweepRace == InitSweepRace /\ [][NextSweepRace]_vars

InitSweepAlone == \E n \in SweepSizes : NewWithExpiry(n)

SpecSweepAlone == InitSweepAlone /\ [][NextSweepAlone]_vars

\* ------------------------------------------------------------ observations
\* The keys of the index map.
Index == {k \in Keys : cache[k] # Nil}

\* The nodes met by following next from n, at most fuel of them.
RECURSIVE Walk(_, _)
Walk(n, fuel) ==
  IF n = Nil \/ fuel = 0 THEN <<>> ELSE <<n>> \o Walk(next[n], fuel - 1)

\* The nodes met by following prev from n, at most fuel of them.
RECURSIVE WalkBack(_, _)
WalkBack(n, fuel) ==
  IF n = Nil \/ fuel = 0 THEN <<>> ELSE <<n>> \o WalkBack(prev[n], fuel - 1)

\* The recency list read from head; a walk of more than MaxNodes nodes has met a cycle.
List == Walk(head, MaxNodes + 1)

ListBack == WalkBack(tail, MaxNodes + 1)

ListSet == {List[i] : i \in 1..Len(List)}

\* q without the repetitions a walk round a cycle makes.
RECURSIVE Firsts(_, _)
Firsts(q, seen) ==
  IF q = <<>> THEN <<>>
  ELSE IF Head(q) \in seen THEN Firsts(Tail(q), seen)
  ELSE <<Head(q)>> \o Firsts(Tail(q), seen \cup {Head(q)})

\* n is the entry the index holds for its key.
Indexed(n) == key[n] \in Keys /\ cache[key[n]] = n

\* The resident entries (in the index and on the list) in list order, head first.
ResidentNodes == SelectSeq(Firsts(List, {}), Indexed)

ResidentKeys == [i \in 1..Len(ResidentNodes) |-> key[ResidentNodes[i]]]

ResidentPairs ==
  [i \in 1..Len(ResidentNodes) |-> <<key[ResidentNodes[i]], value[ResidentNodes[i]]>>]

Reverse(q) == [i \in 1..Len(q) |-> q[Len(q) + 1 - i]]

Without(q, k) == SelectSeq(q, LAMBDA x : x # k)

\* ------------------------------------------------------------------ claims

\* C1: for a cache of capacity N >= 1, after every call of any sequence of
\* Set, Get and Del calls, length <= N and the index holds at most N keys.
C1_CapacityInvariant ==
  ~panicked => (length <= size /\ Cardinality(Index) <= size)

\* C2: a Set of a key that is not resident while length = capacity removes
\* exactly one resident entry, the least recently touched one; any other Set
\* removes none.
C2_EvictsLeastRecentlyTouched ==
  [][(last'.op = "Set" /\ ~panicked') =>
       LET k == last'.k
           removed == {x \in Keys : cache[x] # Nil /\ cache'[x] = Nil}
       IN IF cache[k] = Nil /\ length = size
          THEN hist # <<>> /\ removed = {hist[Len(hist)][1]}
          ELSE removed = {}]_vars

\* C3: after a Get(k) that hits, k is the head of the recency list and the
\* relative order of the other entries is unchanged, whatever position k had
\* (so also when k was the head before an earlier promotion).
C3_GetPromotesToHead ==
  [][(last'.op = "Get" /\ last'.ok) =>
       /\ ~panicked'
       /\ head' = cache'[last'.k]
       /\ ResidentKeys' = <<last'.k>> \o Without(ResidentKeys, last'.k)]_vars

\* C4: a key is in the index exactly when its entry is reachable from head by
\* next, every resident key is at exactly one list position, and length equals
\* the number of index keys and the number of list entries.
C4_IndexListBijection ==
  ~panicked =>
    /\ \A k \in Index : cache[k] \in ListSet
    /\ \A n \in ListSet : Indexed(n)
    /\ length = Cardinality(Index)
    /\ length = Cardinality(ListSet)

\* C5: the list is an acyclic doubly linked chain: next from head reaches tail
\* after exactly length entries, prev from tail reaches head, an entry has a nil
\* prev exactly when it is head and a nil next exactly when it is tail, and
\* neighbours point at each other.
C5_ListWellFormed ==
  ~panicked =>
    /\ Len(List) = length
    /\ (head = Nil) = (tail = Nil)
    /\ (List # <<>> => List[Len(List)] = tail)
    /\ ListBack = Reverse(List)
    /\ \A k \in Index :
         LET e == cache[k] IN
         /\ (prev[e] = Nil) = (e = head)
         /\ (next[e] = Nil) = (e = tail)
         /\ (prev[e] # Nil => next[prev[e]] = e)
         /\ (next[e] # Nil => prev[next[e]] = e)

\* C6: Set(k, v2) on a resident key k keeps length and the resident keys,
\* stores v2, leaves k at the head and keeps the order of the other entries.
C6_UpdateInPlace ==
  [][(last'.op = "Set" /\ cache[last'.k] # Nil) =>
       /\ ~panicked'
       /\ length' = length
       /\ Index' = Index
       /\ value'[cache'[last'.k]] = last'.v
       /\ head' = cache'[last'.k]
       /\ ResidentKeys' = <<last'.k>> \o Without(ResidentKeys, last'.k)]_vars

\* C7: Del(k) on a resident key returns true, removes k from the index, lowers
\* length by one and leaves the other entries resident with their values and
\* their order; Del(k) on an absent key returns false and changes nothing.
C7_DeleteCorrect ==
  [][(last'.op = "Del") =>
       LET k == last'.k IN
       /\ ~panicked'
       /\ IF cache[k] # Nil
          THEN /\ last'.ok
               /\ cache'[k] = Nil
               /\ length' = length - 1
               /\ Index' = Index \ {k}
               /\ ResidentPairs' = SelectSeq(ResidentPairs, LAMBDA e : e[1] # k)
          ELSE /\ ~last'.ok
               /\ UNCHANGED <<engine, panicked>>]_vars

C9_LookupsReadOnly ==
  [][/\ (last'.op = "Contains" \/ (last'.op = "Get" /\ ~last'.ok))
          => UNCHANGED <<engine, h, now, panicked>>
     /\ last'.op = "Contains" => last'.ok = (last'.k \in Index)
     /\ (last'.op = "Contains" /\ last.op = "Contains" /\ last'.k = last.k)
          => last'.ok = last.ok]_vars

C9_Witness ==
  /\ last.op = "Get"
  /\ ~last.ok
  /\ ~panicked
  /\ length >= 2
  /\ head # Nil

\* The reference LRU: a sequence of at most n <<key, value>> pairs of distinct
\* keys where Set and a Get hit move the key to the front, Del removes it, and
\* Set of a new key on a full sequence first drops the last.
RefKeys(q) == {q[i][1] : i \in 1..Len(q)}

RefDrop(q, k) == SelectSeq(q, LAMBDA e : e[1] # k)

RefVal(q, k) == LET i == CHOOSE j \in 1..Len(q) : q[j][1] = k IN q[i][2]

RefSet(q, n, k, v) ==
  IF k \in RefKeys(q) THEN <<<<k, v>>>> \o RefDrop(q, k)
  ELSE <<<<k, v>>>> \o (IF Len(q) >= n THEN SubSeq(q, 1, Len(q) - 1) ELSE q)

RefGet(q, k) ==
  IF k \in RefKeys(q) THEN <<<<k, RefVal(q, k)>>>> \o RefDrop(q, k) ELSE q

\* C10: every call returns what the reference LRU returns and leaves the
\* resident keys, values and order (head to tail) the reference has.
C10_RefinesReferenceLRU ==
  [][LET q == ResidentPairs
         k == last'.k
         same(r) == ResidentPairs' = r /\ Index' = RefKeys(r)
     IN   /\ ~panicked'
          /\ last'.op = "Set" => same(RefSet(q, size, k, last'.v))
          /\ last'.op = "Get" =>
               /\ same(RefGet(q, k))
               /\ last'.ok = (k \in RefKeys(q))
               /\ last'.rv = IF k \in RefKeys(q) THEN RefVal(q, k) ELSE ZeroVal
          /\ last'.op = "Del" =>
               /\ same(RefDrop(q, k))
               /\ last'.ok = (k \in RefKeys(q))
          /\ last'.op = "Contains" =>
               /\ same(q)
               /\ last'.ok = (k \in RefKeys(q))]_vars

\* C11: New(size) and NewWithExpiry(size) with size <= 0 fail, so no cache of
\* capacity <= 0 exists, and no Set reaches the eviction step (l.tail.key) on an
\* empty cache, where the tail is nil.
C11_NonPositiveCapacityRejected ==
  /\ size >= 1
  /\ ~(last.op = "Set" /\ panicked /\ length = 0 /\ tail = Nil)

\* The keys of the index whose entry's deadline is before the time t.
Expired(t) == {k \in Index : ttl[cache[k]] < t}

\* C12: when no caller runs during the walk, a walk of the cleaner ends with no
\* entry in the index whose deadline has passed, and no turn of the walk removes
\* an entry whose deadline has not passed or changes its deadline.
C12_TtlReclamation ==
  [][h # Nil =>
       /\ \A k \in Index \ Expired(now) :
            cache'[k] # Nil /\ ttl'[cache'[k]] = ttl[cache[k]]
       /\ (h' = Nil /\ ~panicked') =>
            \A k \in Keys : cache'[k] # Nil => ttl'[cache'[k]] >= now']_vars

\* The threads inside the section between Lock and Unlock, and the cleaner
\* while it walks the list.
Inside == {t \in Threads : pc[t] = "in"} \cup (IF h # Nil THEN {0} ELSE {})

\* C13: no state has two of the callers of Set, SetWithExpiry, Get, Del and the
\* cleaner's walk reading or writing the index and the list at the same time.
C13_MutualExclusion == Cardinality(Inside) <= 1

\* C14: with threads calling Set, Get and Del concurrently no call panics, the
\* index and the list hold the same entries, length of them, and the lock is
\* held exactly while a thread is between Lock and the deferred Unlock, so it is
\* free again when every call has returned.
C14_ConcurrentSafety ==
  /\ ~panicked
  /\ {cache[k] : k \in Index} = ListSet
  /\ Len(List) = length
  /\ Cardinality(Index) = length
  /\ mu = (\E t \in Threads : pc[t] = "in")

\* C15: Contains reads the index only when no thread is between Lock and
\* Unlock in Set, SetWithExpiry, Get or Del and the cleaner is not in its walk.
C15_ContainsUnderLock == last.op = "Contains" => Inside = {}

\* C16: a walk of the cleaner ends: from its cursor, next reaches nil, after at
\* most length entries (a call is straight-line code between Lock and Unlock and
\* returns in one step).
C16_SweepTerminates ==
  (h # Nil /\ ~panicked) =>
    /\ Len(Walk(h, MaxNodes + 1)) <= MaxNodes
    /\ Len(Walk(h, MaxNodes + 1)) <= length

\* C17: for a resident entry whose deadline has passed, Contains(k) returns
\* true and Get(k) returns its value and true and makes it the head; an expired
\* entry leaves the index only by the cleaner, by Del of its key or by the
\* eviction of a Set of another key.
C17_LookupsIgnoreExpiry ==
  [][/\ (last'.op = "Contains" /\ last'.k \in Expired(now)) => last'.ok
     /\ (last'.op = "Get" /\ last'.k \in Expired(now)) =>
          /\ ~panicked'
          /\ last'.ok
          /\ last'.rv = value[cache[last'.k]]
          /\ head' = cache'[last'.k]
     /\ \A j \in Expired(now) :
          cache'[j] = Nil =>
            \/ last'.op = "Clean"
            \/ last'.op = "Del" /\ last'.k = j
            \/ last'.op = "Set" /\ last'.k # j]_vars

\* The deadline of the entry of a key of the index.
Deadline(k) == ttl[cache[k]]

\* C18: one turn of a walk with no caller running removes the entry under the
\* cursor when its deadline is before the time of the walk, by the path of Del
\* (the index loses the key, length drops by one), and nothing else: every other
\* entry keeps its place in the order, its value and its deadline; a turn on an
\* entry that is not expired changes nothing; the walk ends with no expired
\* entry left.
C18_SweepEffect ==
  [][h # Nil =>
       LET gone == IF ttl[h] < now THEN {key[h]} \cap Index ELSE {}
       IN /\ ~panicked'
          /\ Index' = Index \ gone
          /\ length' = length - Cardinality(gone)
          /\ ResidentPairs' = SelectSeq(ResidentPairs, LAMBDA e : e[1] \notin gone)
          /\ \A k \in Index \ gone : ttl'[cache'[k]] = Deadline(k)
          /\ (h' = Nil => \A k \in Index' : ttl'[cache'[k]] >= now)]_vars

\* C19: head is nil exactly when tail is nil, exactly when length is 0, exactly
\* when the index is empty; so a cache whose keys have all been removed by Del is
\* in the state of a new cache.
C19_ReturnToEmpty ==
  ~panicked =>
    /\ (head = Nil) = (tail = Nil)
    /\ (head = Nil) = (length = 0)
    /\ (head = Nil) = (Index = {})
    /\ Index = {} => (ListSet = {} /\ hist = <<>>)

\* The keys of the entries the walk of the cleaner has still to examine.
Ahead == LET w == Walk(h, MaxNodes + 1) IN {key[w[i]] : i \in 1..Len(w)}

\* C20: a call of Get, SetWithExpiry or Del during a walk of the cleaner leaves
\* every entry the walk has still to examine, that the call does not touch and
\* that stays resident, still to be examined, and adds none to them (a promotion
\* of the entry under the cursor points its next at the old head, and the walk
\* goes back over the entries it has examined).
C20_SweepWithCallers ==
  [][(h # Nil /\ h' # Nil /\ last'.op \in {"Get", "Set", "Del"}) =>
       /\ Ahead' \subseteq Ahead
       /\ \A k \in (Ahead \cap Index') \ {last'.k} : k \in Ahead']_vars

\* C21: in the lru sub-package no two calls of Set, Get or Del are between their
\* lock and unlock, where they read and write the index and the list, at the
\* same time.
C21_SubMutualExclusion ==
  ~panicked => Cardinality({t \in Threads : pc[t] = "in"}) <= 1

\* C22: in the lru sub-package a Set(k, v) of a key in the index does not panic
\* and leaves k in the index, with the value v, at the head; a Del(k) of a key in
\* the index does not panic, returns true and removes k from the index.
C22_SubSetDelNeverFail ==
  [][/\ (last'.op = "Set" /\ last'.k \in Index) =>
          /\ ~panicked'
          /\ cache'[last'.k] # Nil
          /\ value'[cache'[last'.k]] = last'.v
          /\ head' = cache'[last'.k]
     /\ (last'.op = "Del" /\ last'.k \in Index) =>
          /\ ~panicked'
          /\ last'.ok
          /\ cache'[last'.k] = Nil]_vars

====
